---- MODULE Spec2Model ----
(***************************************************************************)
(* A model of the Mapping-Microglia-Parameters scripts:                    *)
(*   src/FracLacDataCombiner.py  (Combine FracLac Batch Results)           *)
(*   src/FracLacPrep.py          (FracLac Preparation, Skeleton Analysis)  *)
(*                                                                         *)
(* Python strings are TLA+ strings; TLC evaluates Len, \o and SubSeq on    *)
(* them, so the string functions of the scripts (strip, startswith, the    *)
(* regular expressions) are computed character by character.               *)
(*                                                                         *)
(* Three specifications share the module:                                  *)
(*   Spec      one run of the combiner's main()                            *)
(*   SpecClean cleanFilename applied to a raw value, then to its result    *)
(*   SpecSkel  one run of the skeleton analysis' main()                    *)
(***************************************************************************)
EXTENDS Integers, Sequences, FiniteSets, TLC

(***************************************************************************)
(* Strings                                                                 *)
(***************************************************************************)

\* s[i] (1-based), a one-character string.
Ch(s, i) == SubSeq(s, i, i)

\* s[a-1:b] with Python's clipping of the slice to the string.
Slice(s, a, b) ==
  LET lo == IF a < 1 THEN 1 ELSE a
      hi == IF b > Len(s) THEN Len(s) ELSE b
  IN IF lo > hi THEN "" ELSE SubSeq(s, lo, hi)

\* value[:n]
Take(s, n) == Slice(s, 1, n)

UpperAlpha == "ABCDEFGHIJKLMNOPQRSTUVWXYZ"
LowerAlpha == "abcdefghijklmnopqrstuvwxyz"

\* str.lower() on one character: an upper-case letter's lower-case letter,
\* any other character itself.
LowerCh(c) ==
  IF \E n \in 1..26 : Ch(UpperAlpha, n) = c
  THEN Ch(LowerAlpha, CHOOSE n \in 1..26 : Ch(UpperAlpha, n) = c)
  ELSE c

\* t (already lower case) occurs in s at position i, compared exactly.
At(s, i, t) ==
  /\ i >= 1
  /\ i + Len(t) - 1 <= Len(s)
  /\ SubSeq(s, i, i + Len(t) - 1) = t

\* t (lower case) occurs in s at position i, ignoring case (re.IGNORECASE,
\* or a test on value.lower()).
AtCI(s, i, t) ==
  /\ i >= 1
  /\ i + Len(t) - 1 <= Len(s)
  /\ \A k \in 1..Len(t) : LowerCh(Ch(s, i + k - 1)) = Ch(t, k)

\* str.startswith, str.endswith
StartsWith(s, p) == At(s, 1, p)
EndsWith(s, p) == At(s, Len(s) - Len(p) + 1, p)

\* `t in s`
Contains(s, t) == \E i \in 1..(Len(s) + 1) : At(s, i, t)

\* `t in s.lower()`
ContainsCI(s, t) == \E i \in 1..(Len(s) + 1) : AtCI(s, i, t)

\* s.split(t)[0]: the text before the first occurrence of t (all of s when
\* t does not occur).
BeforeFirst(s, t) ==
  IF Contains(s, t)
  THEN LET i == CHOOSE i \in 1..(Len(s) + 1) :
                  /\ At(s, i, t)
                  /\ \A j \in 1..(i - 1) : ~At(s, j, t)
       IN Slice(s, 1, i - 1)
  ELSE s

\* The characters str.strip() removes.
Whitespace == {" ", "\t", "\n", "\r", "\f"}

\* str.strip()
Strip(s) ==
  LET keep == {i \in 1..Len(s) : Ch(s, i) \notin Whitespace}
  IN IF keep = {} THEN ""
     ELSE LET lo == CHOOSE i \in keep : \A j \in keep : i <= j
              hi == CHOOSE i \in keep : \A j \in keep : j <= i
          IN SubSeq(s, lo, hi)

\* The characters of file, folder and column names in ASCII code order;
\* Code(c) is the position. Python compares str values character by
\* character on these codes.
Ascii ==
  " -./0123456789ABCDEFGHIJKLMNOPQRSTUVWXYZ_abcdefghijklmnopqrstuvwxyz"

Code(c) ==
  IF \E n \in 1..Len(Ascii) : Ch(Ascii, n) = c
  THEN CHOOSE n \in 1..Len(Ascii) : Ch(Ascii, n) = c
  ELSE 0

\* a < b for Python str: the first differing character decides, a proper
\* prefix is smaller.
StrLess(a, b) ==
  \/ /\ Len(a) < Len(b)
     /\ Take(b, Len(a)) = a
  \/ \E i \in 1..Len(a) :
       /\ i <= Len(b)
       /\ Take(a, i - 1) = Take(b, i - 1)
       /\ Code(Ch(a, i)) < Code(Ch(b, i))

\* sorted(S) for a set of str.
RECURSIVE SortedSeq(_)
SortedSeq(S) ==
  IF S = {} THEN << >>
  ELSE LET m == CHOOSE x \in S : \A y \in S : y = x \/ StrLess(x, y)
       IN <<m>> \o SortedSeq(S \ {m})

(***************************************************************************)
(* FracLacDataCombiner.py: cleanFilename                                   *)
(***************************************************************************)

\* re.search(r'(.+?_mask)\.?tif', s, re.IGNORECASE) tried at start p with
\* the lazy `.+?` taking n characters: n >= 1 characters other than a
\* newline, then `_mask`, an optional `.`, then `tif`.
MaskMatch(s, p, n) ==
  /\ n >= 1
  /\ AtCI(s, p + n, "_mask")
  /\ \A j \in p..(p + n - 1) : Ch(s, j) # "\n"
  /\ \/ /\ At(s, p + n + 5, ".")
        /\ AtCI(s, p + n + 6, "tif")
     \/ AtCI(s, p + n + 5, "tif")

\* The first match among the (p, n) that match: the leftmost start, and
\* from it the shortest (lazy) or the longest (greedy) repetition.
Leftmost(matches) ==
  LET ps == {m[1] : m \in matches}
  IN CHOOSE p \in ps : \A q \in ps : p <= q

Shortest(matches, p) ==
  LET ns == {m[2] : m \in {x \in matches : x[1] = p}}
  IN CHOOSE n \in ns : \A k \in ns : n <= k

Longest(matches, p) ==
  LET ns == {m[2] : m \in {x \in matches : x[1] = p}}
  IN CHOOSE n \in ns : \A k \in ns : k <= n

\* match.group(1) of the mask search: the leftmost start, and from it the
\* shortest `.+?`; "" when there is no match (group 1 is never empty).
MaskGroup(s, matches) ==
  IF matches = {} THEN ""
  ELSE SubSeq(s, Leftmost(matches),
              Leftmost(matches) + Shortest(matches, Leftmost(matches)) + 4)

MaskSearch(s) ==
  MaskGroup(s, {m \in (1..Len(s)) \X (1..Len(s)) : MaskMatch(s, m[1], m[2])})

\* re.search(r'([^/\\]+\.tif)', s, re.IGNORECASE) tried at start p with the
\* greedy class taking n characters: n >= 1 characters other than a slash
\* or a backslash, then `.tif`.
TifMatch(s, p, n) ==
  /\ n >= 1
  /\ AtCI(s, p + n, ".tif")
  /\ \A j \in p..(p + n - 1) : Ch(s, j) \notin {"/", "\\"}

\* match.group(1) of the .tif search: the leftmost start, and from it the
\* longest run the greedy class can keep; "" when there is no match.
TifGroup(s, matches) ==
  IF matches = {} THEN ""
  ELSE SubSeq(s, Leftmost(matches),
              Leftmost(matches) + Longest(matches, Leftmost(matches)) + 3)

TifSearch(s) ==
  TifGroup(s, {m \in (1..Len(s)) \X (1..Len(s)) : TifMatch(s, m[1], m[2])})

\* markers, in the order the loop visits them.
markers == <<"ImageDescription", "Software", "tifffile">>

\* The loop body's `filename`: the first half (integer floor) of the text
\* before the first occurrence of the marker.
HalfBefore(value, marker) ==
  LET before_marker == BeforeFirst(value, marker)
      half_len == Len(before_marker) \div 2
  IN Take(before_marker, half_len)

\* The marker loop: for each marker, group 1 of the mask search in the
\* halved prefix ("" when the marker does not occur in value or the search
\* fails); the loop returns at the first marker, in list order, with a group.
MarkerGroups(value) ==
  [m \in 1..Len(markers) |->
     IF Contains(value, markers[m])
     THEN MaskSearch(HalfBefore(value, markers[m]))
     ELSE ""]

FirstGroup(groups) ==
  LET hits == {m \in 1..Len(groups) : groups[m] # ""}
  IN IF hits = {} THEN ""
     ELSE groups[CHOOSE m \in hits : \A k \in hits : m <= k]

\* The length of the placeholder's copy of the value: value[:30].
PlaceholderLen == 30

\* The last three returns of cleanFilename, given group 1 of the direct
\* mask search and of the .tif search on the stripped value.
CleanDirect(v, maskGroup, tifGroup) ==
  IF maskGroup # "" THEN maskGroup \o ".tif"
  ELSE IF tifGroup # "" THEN tifGroup
  ELSE "unknown_" \o Take(v, PlaceholderLen)

\* cleanFilename with the patterns tried on the halved text alone once a
\* marker occurs in the value: no direct match after the marker loop.
CleanStripped_HalvedOnly(v, markerGroup) ==
  IF markerGroup # "" THEN markerGroup \o ".tif"
  ELSE IF \E m \in 1..Len(markers) : Contains(v, markers[m])
  THEN "unknown_" \o Take(v, PlaceholderLen)
  ELSE CleanDirect(v, MaskSearch(v), TifSearch(v))

\* cleanFilename after value = str(value).strip(), given the marker loop's
\* group.
CleanStripped(v, markerGroup) ==
  IF markerGroup # "" THEN markerGroup \o ".tif"
  ELSE CleanDirect(v, MaskSearch(v), TifSearch(v))

\* cleanFilename with the mask pattern's group returned as matched, the
\* '.tif' extension not put back on it.
cleanFilename_NoExtension(value) ==
  IF value = "" THEN "unknown"
  ELSE IF FirstGroup(MarkerGroups(Strip(value))) # ""
  THEN FirstGroup(MarkerGroups(Strip(value)))
  ELSE IF MaskSearch(Strip(value)) # "" THEN MaskSearch(Strip(value))
  ELSE CleanDirect(Strip(value), "", TifSearch(Strip(value)))

\* cleanFilename(value); a None value is the empty string here (both are
\* falsy).
cleanFilename(value) ==
  IF value = "" THEN "unknown"
  ELSE CleanStripped(Strip(value), FirstGroup(MarkerGroups(Strip(value))))

\* The return statement cleanFilename leaves by: "empty" (not value),
\* "marker" (a match in a halved prefix), "mask" (the direct match), "tif"
\* (the looser .tif match), "placeholder" (the last line).
CleanPath(value) ==
  IF value = "" THEN "empty"
  ELSE IF FirstGroup(MarkerGroups(Strip(value))) # "" THEN "marker"
  ELSE IF MaskSearch(Strip(value)) # "" THEN "mask"
  ELSE IF TifSearch(Strip(value)) # "" THEN "tif"
  ELSE "placeholder"

(***************************************************************************)
(* FracLacDataCombiner.py: dictionaries, the column map, one row           *)
(***************************************************************************)

\* {} and d[k] = v for a dict modelled as a function on its keys.
EmptyDict == [k \in {} |-> ""]

Put(d, k, v) == [x \in (DOMAIN d) \cup {k} |-> IF x = k THEN v ELSE d[x]]

\* column_map, as (prefix, canonical name) in the order it is written.
column_map ==
  << <<"6.", "fractal_dimension">>,
     <<"87.", "lacunarity">>,
     <<"131.", "density">>,
     <<"132.", "span_ratio">>,
     <<"134.", "maximum_span_across_hull">>,
     <<"135.", "convex_hull_area">>,
     <<"136.", "convex_hull_perimeter">>,
     <<"137.", "convex_hull_circularity">>,
     <<"140.", "maximum_radius_from_hulls_centre_of_mass">>,
     <<"141.", "max_min_radii">>,
     <<"142.", "cv_for_all_radii">>,
     <<"143.", "mean_radius">>,
     <<"145.", "diameter_of_bounding_circle">>,
     <<"146.", "maximum_radius_from_circles_centre">>,
     <<"147.", "max_min_radii_from_circles_centre">>,
     <<"148.", "cv_for_all_radii_from_circles_centre">>,
     <<"149.", "mean_radius_from_circles_centre">> >>

\* col.startswith(pattern) with a substring test in its place.
ColMatches_Anywhere(col, pattern) == Contains(col, pattern)

\* col.startswith(pattern)
ColMatches(col, pattern) == StartsWith(col, pattern)

\* The inner loop with its break: the first col of fieldnames, in header
\* order, that matches the pattern; 0 when none does.
FirstMatch(fieldnames, pattern) ==
  LET hits == {j \in 1..Len(fieldnames) : ColMatches(fieldnames[j], pattern)}
  IN IF hits = {} THEN 0
     ELSE CHOOSE j \in hits : \A k \in hits : j <= k

\* The outer loop from entry k of column_map on: actualColumns[col] = name
\* for the pattern's first matching col, a later assignment to the same col
\* replacing an earlier one.
RECURSIVE BindFrom(_, _, _)
BindFrom(k, fieldnames, actualColumns) ==
  IF k > Len(column_map) THEN actualColumns
  ELSE LET j == FirstMatch(fieldnames, column_map[k][1])
       IN IF j = 0
          THEN BindFrom(k + 1, fieldnames, actualColumns)
          ELSE BindFrom(k + 1, fieldnames,
                        Put(actualColumns, fieldnames[j], column_map[k][2]))

\* "Build actual column mapping": actualColumns, raw header -> canonical
\* name. (No string starts with two of column_map's prefixes, so the order
\* in which a dict yields its items does not change the result.)
BuildActualColumns(fieldnames) == BindFrom(1, fieldnames, EmptyDict)

\* row[col] for a row read under fieldnames; csv.DictReader builds the row
\* by zip(fieldnames, values), so a repeated header keeps its last value.
\* A row is the sequence of its values, one under each header.
RowGet(fieldnames, row, col) ==
  LET js == {j \in 1..Len(fieldnames) : fieldnames[j] = col}
  IN row[CHOOSE j \in js : \A k \in js : k <= j]

\* extractFilenameFromRow's two loops, given cleanFilename of each value of
\* the row: the names it can return. The first '1.' column's cleaned value,
\* else that of the first value holding '_mask' or '.tif' whose cleaned
\* name is not empty and does not start with "unknown", else the bare
\* "unknown". The row is a dict, whose items come in no fixed order under
\* the interpreter the script runs in, so "first" is any of the candidates.
KeyOfRow(fieldnames, row, cleaned) ==
  LET firsts == {j \in 1..Len(fieldnames) : StartsWith(fieldnames[j], "1.")}
      found == {j \in 1..Len(fieldnames) :
                  /\ \/ ContainsCI(row[j], "_mask")
                     \/ ContainsCI(row[j], ".tif")
                  /\ cleaned[j] # ""
                  /\ ~StartsWith(cleaned[j], "unknown")}
  IN IF firsts # {}
     THEN {cleaned[j] : j \in firsts}
     ELSE IF found # {}
     THEN {cleaned[j] : j \in found}
     ELSE {"unknown"}

\* extractFilenameFromRow(row), for a row whose key loop does not raise:
\* the set of names it can return. (The rows drawn have no repeated header.)
extractFilenameFromRow(fieldnames, row) ==
  KeyOfRow(fieldnames, row,
           [j \in 1..Len(fieldnames) |-> cleanFilename(row[j])])

\* The test with its first clause alone: any non-empty value is stored.
Accepted_NonEmpty(v) == v # ""

\* The test a measurement value must pass to be stored.
Accepted(v) ==
  /\ v # ""
  /\ v # "Not Calculated"
  /\ Strip(v) # ""

\* The body of "for row in reader" after the key is known: the record
\* under the key is created if need be, and every bound column with an
\* accepted value is stored under its canonical name.
StoreRow(data, fieldnames, actualColumns, row, filename) ==
  LET before == IF filename \in DOMAIN data
                THEN data[filename]
                ELSE Put(EmptyDict, "filename", filename)
      cols == {col \in DOMAIN actualColumns :
                 Accepted(RowGet(fieldnames, row, col))}
      names == {actualColumns[col] : col \in cols}
      after == [f \in (DOMAIN before) \cup names |->
                  IF f \in names
                  THEN RowGet(fieldnames, row,
                              CHOOSE col \in cols : actualColumns[col] = f)
                  ELSE before[f]]
  IN Put(data, filename, after)

\* dict.update on one record with every field of the record replaced by
\* the incoming record (allData[filename] = measurements).
UpdateRecord_Replace(old, new) == new

\* allData[filename].update(measurements)
UpdateRecord(old, new) ==
  [f \in (DOMAIN old) \cup (DOMAIN new) |->
     IF f \in DOMAIN new THEN new[f] ELSE old[f]]

\* "Merge into allData": the loop over folderData.items().
MergeInto(allData, folderData) ==
  [k \in (DOMAIN allData) \cup (DOMAIN folderData) |->
     IF k \in DOMAIN folderData
     THEN IF k \in DOMAIN allData
          THEN UpdateRecord(allData[k], folderData[k])
          ELSE folderData[k]
     ELSE allData[k]]

\* The name test of a Box Count Summary file, and of the one that is read.
IsBoxCount(filename) ==
  /\ ContainsCI(filename, "box")
  /\ ContainsCI(filename, "count")
  /\ ContainsCI(filename, "summary")

IsBoxCountTxt(filename) ==
  /\ IsBoxCount(filename)
  /\ AtCI(filename, Len(filename) - 3, ".txt")

\* The first name of a folder's listing that passes test T; "" when none.
FirstBoxCountTxt(files) ==
  LET hits == {j \in 1..Len(files) : IsBoxCountTxt(files[j])}
  IN IF hits = {} THEN ""
     ELSE files[CHOOSE j \in hits : \A k \in hits : j <= k]

\* One line of the CSV: the record's value under each column, '' for a
\* column the record lacks (csv.DictWriter's restval).
CsvRow(columnOrder, record) ==
  [c \in 1..Len(columnOrder) |->
     IF columnOrder[c] \in DOMAIN record THEN record[columnOrder[c]] ELSE ""]

\* sorted(fracLacFolders): the folders in the order they are processed.
FolderOrder(folders) == SortedSeq({folders[j] : j \in 1..Len(folders)})

\* columnOrder with 'filename' left in the set that is sorted.
ColumnOrder_KeepFilename(allData) ==
  <<"filename">> \o
  SortedSeq(UNION {DOMAIN allData[k] : k \in DOMAIN allData})

\* columnOrder: 'filename', then the other keys of all records, sorted.
ColumnOrder(allData) ==
  <<"filename">> \o
  SortedSeq((UNION {DOMAIN allData[k] : k \in DOMAIN allData}) \ {"filename"})

\* `len(allData) == 0` never stopping the run before the CSV is written.
NoData_Never(allData) == FALSE

\* len(allData) == 0
NoData(allData) == DOMAIN allData = {}

(***************************************************************************)
(* State                                                                   *)
(***************************************************************************)

VARIABLES
  value,     \* SpecClean: the raw text handed to cleanFilename
  results    \* SpecClean: what cleanFilename returned, call after call

VARIABLES
  pc,              \* Spec: where main() of the combiner stands
  status,          \* what the run has reported: "running", an error, "success"
  fracLacFolders,  \* the qualifying folders, in os.listdir order
  i,               \* the folder of sorted(fracLacFolders) being processed
  processed,       \* history: the folders the loop has taken, in that order
  fieldnames,      \* reader.fieldnames of the open file
  actualColumns,   \* the open file's column mapping
  rowsRead,        \* rows of the open file read so far
  data,            \* processFracLacFile's data
  fileError,       \* whether the folder last taken ended in the except branch
  allData,         \* the global table
  outputs,         \* the CSV files written, each [columnOrder, rows]
  expected         \* history: per key and field, the value of the last
                   \* extracted row that supplied an accepted one

VARIABLES
  rowHeader,  \* SpecRow: the keys of the row handed to extractFilenameFromRow
  rowValues,  \* SpecRow: the row's values, one under each key
  rowKey      \* SpecRow: what extractFilenameFromRow returned, once it has

VARIABLES
  skelPc,       \* SpecSkel: where main() of the skeleton analysis stands
  skelStatus,   \* what the run has reported, or "aborted" by an exception
  pixelSize,    \* the calibration, microns per pixel, as <<num, den>>
  maskFiles,    \* the names main() found, in os.listdir order
  maskIndex,    \* the mask of maskFiles the loop is at
  allResults,   \* the metrics of the masks analysed so far
  analyzerGave, \* history: per entry of allResults, what
                \* getAverageBranchLength did for it
  written,      \* the result CSVs written, each the rows it holds
  skeletons,    \* the skeleton files in the output folder: per path, the
                \* mask whose skeleton the file holds
  openHandles   \* history: the images opened and not closed, each
                \* <<mask file, "mask" or "skel">>

VARIABLES
  prepPc,      \* SpecPrep: where main() of the preparation stands
  allFiles,    \* the TIFF files main() found, in os.listdir order
  fileIndex,   \* the file of allFiles the cleaning loop is at
  cleaned,     \* the count of files cleaned and saved
  failed,      \* the count of files that failed
  savedImages, \* the names saved to FracLacImages
  openImages   \* history: the files whose image was opened and not closed

varsF == <<value, results>>

varsP == <<prepPc, allFiles, fileIndex, cleaned, failed, savedImages,
           openImages>>

varsR == <<rowHeader, rowValues, rowKey>>

varsS == <<skelPc, skelStatus, pixelSize, maskFiles, maskIndex, allResults,
           analyzerGave, written, skeletons, openHandles>>

varsC == <<pc, status, fracLacFolders, i, processed, fieldnames, actualColumns,
           rowsRead, data, fileError, allData, outputs, expected>>

vars == <<varsF, varsC, varsR, varsS, varsP>>

\* The variables of the other specifications, which an action leaves alone.
notF == <<varsC, varsR, varsS, varsP>>

notC == <<varsF, varsR, varsS, varsP>>

notR == <<varsF, varsC, varsS, varsP>>

notS == <<varsF, varsC, varsR, varsP>>

notP == <<varsF, varsC, varsR, varsS>>

\* The combiner's variables while another specification runs.
IdleC ==
  /\ pc = "idle"
  /\ status = "idle"
  /\ fracLacFolders = << >>
  /\ i = 0
  /\ processed = << >>
  /\ fieldnames = << >>
  /\ actualColumns = EmptyDict
  /\ rowsRead = 0
  /\ data = EmptyDict
  /\ fileError = FALSE
  /\ allData = EmptyDict
  /\ outputs = << >>
  /\ expected = EmptyDict

\* cleanFilename's variables while another specification runs.
IdleF ==
  /\ value = ""
  /\ results = << >>

\* extractFilenameFromRow's variables while another specification runs.
IdleR ==
  /\ rowHeader = << >>
  /\ rowValues = << >>
  /\ rowKey = << >>

\* The skeleton analysis's variables while another specification runs.
IdleS ==
  /\ skelPc = "idle"
  /\ skelStatus = "idle"
  /\ pixelSize = <<1, 1>>
  /\ maskFiles = << >>
  /\ maskIndex = 0
  /\ allResults = << >>
  /\ analyzerGave = << >>
  /\ written = << >>
  /\ skeletons = EmptyDict
  /\ openHandles = {}

\* The preparation's variables while another specification runs.
IdleP ==
  /\ prepPc = "idle"
  /\ allFiles = << >>
  /\ fileIndex = 0
  /\ cleaned = 0
  /\ failed = 0
  /\ savedImages = {}
  /\ openImages = {}

(***************************************************************************)
(* SpecClean: cleanFilename applied to a raw value, then to its own result *)
(***************************************************************************)

\* The raw values are concatenations of at most MaxPieces of these pieces:
\* a mask file name, the parts of one in either case, a path separator,
\* white space inside the text, and two of the markers.
Pieces ==
  {"x_mask.tif", "_MASK", "tif", ".TIF", "x", "/", "\n ",
   "ImageDescription", "tifffile"}

MaxPieces == 3

RECURSIVE RawValues(_)
RawValues(n) ==
  IF n = 0 THEN {""}
  ELSE LET shorter == RawValues(n - 1)
       IN shorter \cup {p \o s : p \in Pieces, s \in shorter}

\* The value of a corrupted identity field whose recovery is documented.
DocumentedValues == {"xyz_mask.tif_mask.tifImageDescriptionjunk"}

InitF ==
  /\ value \in RawValues(MaxPieces) \cup DocumentedValues
  /\ results = << >>
  /\ IdleC
  /\ IdleR
  /\ IdleS
  /\ IdleP

\* filename = cleanFilename(value)
CleanOnce ==
  /\ Len(results) = 0
  /\ results' = <<cleanFilename(value)>>
  /\ UNCHANGED <<value, notF>>

\* cleanFilename(filename): the recovered key handed back to the recoverer.
CleanAgain ==
  /\ Len(results) = 1
  /\ results' = Append(results, cleanFilename(results[1]))
  /\ UNCHANGED <<value, notF>>

NextF == CleanOnce \/ CleanAgain

SpecClean == InitF /\ [][NextF]_vars

(***************************************************************************)
(* Claims about cleanFilename, checked under SpecClean                     *)
(***************************************************************************)

\* C2 as stated: cleanFilename is idempotent for every input string, the
\* empty-value and 'unknown_' placeholder paths included: a second call on
\* the first call's result returns that result.
C2_IdempotentEverywhere ==
  Len(results) = 2 => results[2] = results[1]

\* C2 as amended: cleanFilename is idempotent on every recovered name that
\* does not begin with white space: when the first call returns through
\* the mask pattern (after a marker's halving or on the direct match) or
\* through the looser .tif pattern, a second call returns the same string.
C2_IdempotentOnRecoveredNames ==
  (/\ Len(results) = 2
   /\ CleanPath(value) \in {"marker", "mask", "tif"}
   /\ Ch(results[1], 1) \notin Whitespace)
  => results[2] = results[1]

\* C2's case: a raw value recovered through a marker's halved prefix, whose
\* result differs from the raw value and has been cleaned a second time.
C2_Witness ==
  /\ Len(results) = 2
  /\ CleanPath(value) = "marker"
  /\ results[1] # value
  /\ results[2] = results[1]

\* C12: for the raw value "xyz_mask.tif_mask.tifImageDescriptionjunk" the
\* marker 'ImageDescription' is found, the text before it is halved (the
\* first 10 of its 21 characters), and the name returned is exactly
\* "xyz_mask.tif".
C12_DocumentedExample ==
  (value = "xyz_mask.tif_mask.tifImageDescriptionjunk" /\ Len(results) >= 1)
  => /\ Contains(value, markers[1])
     /\ Len(BeforeFirst(value, markers[1])) = 21
     /\ HalfBefore(value, markers[1]) = "xyz_mask.t"
     /\ results[1] = "xyz_mask.tif"

\* C12's case: the documented value has been cleaned; the halved text
\* "xyz_mask.t" holds no mask name, and the name was returned by the direct
\* match on the whole value.
C12_Witness ==
  /\ value = "xyz_mask.tif_mask.tifImageDescriptionjunk"
  /\ Len(results) >= 1
  /\ MaskSearch(HalfBefore(value, markers[1])) = ""
  /\ CleanPath(value) = "mask"

(***************************************************************************)
(* Spec: one run of the combiner's main()                                  *)
(***************************************************************************)

\* What the run is given: the entries of FracLacData (at most MaxFolders of
\* them), the listing of each folder, the header of each file and its rows
\* (at most MaxRows are read from one file).
MaxFolders == 2

MaxRows == 2

FolderNames == {"Batch_002", "Batch_010", "batch_001"}

FolderListings ==
  {<<"Box Count Summary.txt">>,
   <<"notes.txt", "BOX COUNT SUMMARY.TXT">>,
   <<"box_count_summary.csv">>,
   <<"notes.txt">>}

DirEntries == [name : FolderNames, isDir : BOOLEAN, files : FolderListings]

DirListings ==
  {l \in UNION {[1..n -> DirEntries] : n \in 0..MaxFolders} :
     \A a, b \in 1..Len(l) : a # b => l[a].name # l[b].name}

Headers ==
  {<<"1. Name", "87. Lacunarity">>,
   <<"Name", "131. Density", "131. Other">>}

ColumnValues(h) ==
  CASE StartsWith(h, "1.") -> {"a_mask.tifa_mask.tifSoftware", ""}
    [] h = "87. Lacunarity" -> {"0.5", "0.9", "Not Calculated"}
    [] h = "131. Density" -> {"7", " "}
    [] h = "Name" -> {"a_mask.tif", "notes"}
    [] OTHER -> {"3"}

RECURSIVE ValuesUnder(_)
ValuesUnder(hs) ==
  IF hs = << >> THEN {<< >>}
  ELSE {<<x>> \o r : x \in ColumnValues(Head(hs)), r \in ValuesUnder(Tail(hs))}

Rows(hs) == ValuesUnder(hs)

\* The claim's reading of a row, for the history variable: the accepted
\* value the row supplies for each canonical name, through the first header
\* that starts with the name's prefix.
Supplied(hs, row) ==
  LET bound == {k \in 1..Len(column_map) :
                  \E j \in 1..Len(hs) : StartsWith(hs[j], column_map[k][1])}
      first(k) == CHOOSE j \in 1..Len(hs) :
                    /\ StartsWith(hs[j], column_map[k][1])
                    /\ \A l \in 1..(j - 1) : ~StartsWith(hs[l], column_map[k][1])
      given == {k \in bound : Accepted(row[first(k)])}
  IN [f \in {column_map[k][2] : k \in given} |->
        row[first(CHOOSE k \in given : column_map[k][2] = f)]]

\* The history after a row: under the row's key, 'filename' and every
\* field supplied so far, each with the last value supplied for it.
Expect(exp, key, supplied) ==
  LET old == IF key \in DOMAIN exp THEN exp[key] ELSE EmptyDict
  IN Put(exp, key,
         [f \in (DOMAIN old) \cup (DOMAIN supplied) \cup {"filename"} |->
            IF f \in DOMAIN supplied THEN supplied[f]
            ELSE IF f = "filename" THEN key
            ELSE old[f]])

Init ==
  /\ pc = "start"
  /\ status = "running"
  /\ fracLacFolders = << >>
  /\ i = 0
  /\ processed = << >>
  /\ fieldnames = << >>
  /\ actualColumns = EmptyDict
  /\ rowsRead = 0
  /\ data = EmptyDict
  /\ fileError = FALSE
  /\ allData = EmptyDict
  /\ outputs = << >>
  /\ expected = EmptyDict
  /\ IdleF
  /\ IdleR
  /\ IdleS
  /\ IdleP

\* "Check if FracLacData exists": it does not; the error is reported and
\* main returns.
DataFolderMissing ==
  /\ pc = "start"
  /\ pc' = "done"
  /\ status' = "no_data_folder"
  /\ UNCHANGED <<fracLacFolders, i, processed, fieldnames, actualColumns,
                 rowsRead, data, fileError, allData, outputs, expected, notC>>

\* "Find all FracLac output folders": the folders of the listing that hold
\* a Box Count Summary file; with none, the error is reported and main
\* returns.
ScanFolders ==
  /\ pc = "start"
  /\ \E listing \in DirListings :
       LET keep(e) == e.isDir /\ \E j \in 1..Len(e.files) : IsBoxCount(e.files[j])
           found == SelectSeq(listing, keep)
       IN /\ fracLacFolders' = [j \in 1..Len(found) |-> found[j].name]
          /\ IF Len(found) = 0
             THEN /\ pc' = "done"
                  /\ status' = "no_folders"
                  /\ i' = 0
             ELSE /\ pc' = "loop"
                  /\ status' = "running"
                  /\ i' = 1
  /\ UNCHANGED <<processed, fieldnames, actualColumns, rowsRead, data,
                 fileError, allData, outputs, expected, notC>>

\* The folder holds a Box Count Summary file but none ending in .txt:
\* WARNING, continue.
SkipFolder ==
  /\ pc = "loop"
  /\ i <= Len(fracLacFolders)
  /\ \E files \in FolderListings :
       /\ \E j \in 1..Len(files) : IsBoxCount(files[j])
       /\ FirstBoxCountTxt(files) = ""
  /\ processed' = Append(processed, FolderOrder(fracLacFolders)[i])
  /\ i' = i + 1
  /\ fileError' = FALSE
  /\ UNCHANGED <<pc, status, fracLacFolders, fieldnames, actualColumns,
                 rowsRead, data, allData, outputs, expected, notC>>

\* processFracLacFile up to the first row: the file opens, its header is
\* read and the column mapping is built.
OpenFile ==
  /\ pc = "loop"
  /\ i <= Len(fracLacFolders)
  /\ \E files \in FolderListings : FirstBoxCountTxt(files) # ""
  /\ \E hs \in Headers :
       /\ fieldnames' = hs
       /\ actualColumns' = BuildActualColumns(hs)
  /\ processed' = Append(processed, FolderOrder(fracLacFolders)[i])
  /\ pc' = "rows"
  /\ rowsRead' = 0
  /\ data' = EmptyDict
  /\ fileError' = FALSE
  /\ UNCHANGED <<status, fracLacFolders, i, allData, outputs, expected, notC>>

\* processFracLacFile raising before any row: open() fails, or the file is
\* empty (fieldnames is None and the loop over it raises). The except
\* branch prints the error, the empty data is returned and merged.
OpenFails ==
  /\ pc = "loop"
  /\ i <= Len(fracLacFolders)
  /\ \E files \in FolderListings : FirstBoxCountTxt(files) # ""
  /\ fileError' = TRUE
  /\ data' = EmptyDict
  /\ allData' = MergeInto(allData, EmptyDict)
  /\ processed' = Append(processed, FolderOrder(fracLacFolders)[i])
  /\ i' = i + 1
  /\ UNCHANGED <<pc, status, fracLacFolders, fieldnames, actualColumns,
                 rowsRead, outputs, expected, notC>>

\* One pass of "for row in reader" that ends normally. (An over-long line
\* whose '1.' column the key loop meets before the key None is read like
\* the line without its extra fields: nothing else reads them.)
ReadRow ==
  /\ pc = "rows"
  /\ rowsRead < MaxRows
  /\ \E row \in Rows(fieldnames) :
       \E filename \in extractFilenameFromRow(fieldnames, row) :
         /\ data' = StoreRow(data, fieldnames, actualColumns, row, filename)
         /\ expected' = Expect(expected, filename, Supplied(fieldnames, row))
  /\ rowsRead' = rowsRead + 1
  /\ UNCHANGED <<pc, status, fracLacFolders, i, processed, fieldnames,
                 actualColumns, fileError, allData, outputs, notC>>

\* A pass of "for row in reader" that raises: the reader fails on the next
\* line (csv.Error on a NUL byte, an I/O error), or the line holds more
\* fields than the header, DictReader stores them under the key None, and
\* extractFilenameFromRow's first loop calls None.startswith. The except
\* branch prints the error; data, as the earlier rows left it, is returned
\* and merged into allData.
RowRaises ==
  /\ pc = "rows"
  /\ rowsRead < MaxRows
  /\ fileError' = TRUE
  /\ allData' = MergeInto(allData, data)
  /\ pc' = "loop"
  /\ i' = i + 1
  /\ fieldnames' = << >>
  /\ actualColumns' = EmptyDict
  /\ rowsRead' = 0
  /\ data' = EmptyDict
  /\ UNCHANGED <<status, fracLacFolders, processed, outputs, expected, notC>>

\* The reader is exhausted: data is returned and merged into allData; the
\* locals of processFracLacFile are gone.
EndOfFile ==
  /\ pc = "rows"
  /\ allData' = MergeInto(allData, data)
  /\ pc' = "loop"
  /\ i' = i + 1
  /\ fieldnames' = << >>
  /\ actualColumns' = EmptyDict
  /\ rowsRead' = 0
  /\ data' = EmptyDict
  /\ UNCHANGED <<status, fracLacFolders, processed, fileError, outputs,
                 expected, notC>>

\* After the last folder: with no data the error is reported and main
\* returns; otherwise the combined CSV is written, header then one line per
\* key in sorted order.
Finish ==
  /\ pc = "loop"
  /\ i > Len(fracLacFolders)
  /\ pc' = "done"
  /\ IF NoData(allData)
     THEN /\ status' = "no_data"
          /\ UNCHANGED outputs
     ELSE LET columnOrder == ColumnOrder(allData)
              keys == SortedSeq(DOMAIN allData)
          IN /\ status' = "success"
             /\ outputs' = Append(outputs,
                  [columnOrder |-> columnOrder,
                   keys |-> keys,
                   rows |-> [r \in 1..Len(keys) |->
                               CsvRow(columnOrder, allData[keys[r]])]])
  /\ UNCHANGED <<fracLacFolders, i, processed, fieldnames, actualColumns,
                 rowsRead, data, fileError, allData, expected, notC>>

Next ==
  \/ DataFolderMissing
  \/ ScanFolders
  \/ SkipFolder
  \/ OpenFile
  \/ OpenFails
  \/ ReadRow
  \/ RowRaises
  \/ EndOfFile
  \/ Finish

Spec == Init /\ [][Next]_vars

(***************************************************************************)
(* Claims about the combiner's run, checked under Spec                     *)
(***************************************************************************)

\* C1: folding partial records into the global table is field-level and
\* last-processed-wins, rows within a file and then folders in the sorted
\* order of their names: whenever the loop stands between two files or has
\* ended, every key's record holds 'filename' = key plus every field an
\* extracted row supplied for the key, each with the value of the last such
\* row, and the folders taken so far were taken in ascending name order.
C1_FieldLevelLastWins ==
  pc \in {"loop", "done"} =>
    /\ allData = expected
    /\ \A a, b \in 1..Len(processed) :
         a < b => StrLess(processed[a], processed[b])

\* C1's case: the run has ended after two folders, listed in descending
\* order of their names, and the record of a_mask.tif holds a field of one
\* file next to a field of the other.
C1_Witness ==
  /\ pc = "done"
  /\ Len(fracLacFolders) = 2
  /\ StrLess(fracLacFolders[2], fracLacFolders[1])
  /\ "a_mask.tif" \in DOMAIN allData
  /\ DOMAIN allData["a_mask.tif"] = {"filename", "lacunarity", "density"}


\* C3 as stated: when processing one source file fails (on opening it, on
\* its header, or at any row, a row after extracted rows included) the file
\* contributes nothing: the table after the failed file equals the table
\* before it, and the run continues with the next folder.
C3_FailedFileContributesNothing ==
  [][(fileError' /\ i' = i + 1) => (allData' = allData /\ pc' = "loop")]_vars

\* C9: the column list of the combined output is 'filename' first, then
\* the other field names of all records in ascending order, each once and
\* 'filename' not again; the output has one line per key of the table.
C9_FilenameFirstSortedUnion ==
  \A n \in 1..Len(outputs) :
    LET cols == outputs[n].columnOrder
        keys == outputs[n].keys
    IN /\ cols[1] = "filename"
       /\ \A c \in 2..Len(cols) : cols[c] # "filename"
       /\ {cols[c] : c \in 1..Len(cols)} =
            {"filename"} \cup UNION {DOMAIN allData[k] : k \in DOMAIN allData}
       /\ \A a, b \in 2..Len(cols) : a < b => StrLess(cols[a], cols[b])
       /\ Len(outputs[n].rows) = Cardinality(DOMAIN allData)
       /\ {keys[r] : r \in 1..Len(keys)} = DOMAIN allData
       /\ \A r \in 1..Len(keys) : outputs[n].rows[r][1] = keys[r]

\* C9's case: an output of two specimens whose fields were found in two
\* files, so that the column list holds two field names after 'filename'.
C9_Witness ==
  /\ Len(outputs) = 1
  /\ Len(outputs[1].columnOrder) = 3
  /\ Len(outputs[1].rows) = 2

\* C10: a run that reports a missing data folder, no FracLac folder or no
\* data has stopped and has written no output; an output is written at most
\* once, by a run that has taken every folder and holds at least one
\* specimen.
C10_NoOutputWithoutData ==
  /\ Len(outputs) <= 1
  /\ status \in {"no_data_folder", "no_folders", "no_data"} =>
       pc = "done" /\ outputs = << >>
  /\ outputs # << >> =>
       /\ pc = "done"
       /\ status = "success"
       /\ DOMAIN allData # {}
       /\ Len(processed) = Len(fracLacFolders)
  /\ (pc = "done" /\ DOMAIN allData # {}) => Len(outputs) = 1

\* C10's case: every folder was taken, none yielded a specimen, and the run
\* has ended with the no-data error.
C10_Witness ==
  /\ pc = "done"
  /\ status = "no_data"
  /\ Len(processed) > 1
  /\ fileError


\* C14: a row leaves a field of its record as it was when the row's value
\* under the bound header is empty, white space only or 'Not Calculated' (a
\* captured value is kept, an absent field stays absent) and stores any
\* other value verbatim, the other records untouched; so in every state no
\* measurement field of a record, in the file's data or in the global
\* table, holds such a value, and the record under key k has filename = k.
C14_RejectedValuesLeaveFields ==
  /\ [](\A t \in {data, allData} : \A k \in DOMAIN t :
         /\ "filename" \in DOMAIN t[k]
         /\ t[k]["filename"] = k
         /\ \A f \in (DOMAIN t[k]) \ {"filename"} :
              /\ t[k][f] # ""
              /\ t[k][f] # "Not Calculated"
              /\ \E c \in 1..Len(t[k][f]) : Ch(t[k][f], c) \notin Whitespace)
  /\ [][rowsRead' = rowsRead + 1 =>
        \E row \in Rows(fieldnames), key \in DOMAIN data' :
          /\ DOMAIN data' = (DOMAIN data) \cup {key}
          /\ \A k \in (DOMAIN data) \ {key} : data'[k] = data[k]
          /\ \A col \in DOMAIN actualColumns :
               LET f == actualColumns[col]
                   v == row[CHOOSE j \in 1..Len(fieldnames) :
                              fieldnames[j] = col]
                   rejected == \/ v = ""
                               \/ v = "Not Calculated"
                               \/ \A c \in 1..Len(v) : Ch(v, c) \in Whitespace
               IN IF ~rejected
                  THEN f \in DOMAIN data'[key] /\ data'[key][f] = v
                  ELSE IF key \in DOMAIN data /\ f \in DOMAIN data[key]
                  THEN f \in DOMAIN data'[key] /\ data'[key][f] = data[key][f]
                  ELSE f \notin DOMAIN data'[key]]_vars

\* C14's case: two rows of a file were read; the one under a_mask.tif
\* stored its density, the one under the key "unknown" had white space
\* for it and its record holds the filename alone.
C14_Witness ==
  /\ pc = "rows"
  /\ rowsRead = 2
  /\ DOMAIN data = {"a_mask.tif", "unknown"}
  /\ DOMAIN data["a_mask.tif"] = {"filename", "density"}
  /\ DOMAIN data["unknown"] = {"filename"}

(***************************************************************************)
(* SpecColumns: the column mapping of one header row                       *)
(***************************************************************************)

\* The header rows are the sequences of at most MaxHeaders of these names:
\* two that start with the prefix "6.", one that starts with "136." and so
\* holds "6." further on, and two that start with no prefix of column_map.
HeaderNames == {"6. D", "6. Db", "136. Hull", "16. x", "Name"}

MaxHeaders == 3

HeaderRows == UNION {[1..n -> HeaderNames] : n \in 1..MaxHeaders}

InitB ==
  /\ pc = "header"
  /\ fieldnames \in HeaderRows
  /\ actualColumns = EmptyDict
  /\ status = "idle"
  /\ fracLacFolders = << >>
  /\ i = 0
  /\ processed = << >>
  /\ rowsRead = 0
  /\ data = EmptyDict
  /\ fileError = FALSE
  /\ allData = EmptyDict
  /\ outputs = << >>
  /\ expected = EmptyDict
  /\ IdleF
  /\ IdleR
  /\ IdleS
  /\ IdleP

\* "Build actual column mapping" for the header that was read.
BindColumns ==
  /\ pc = "header"
  /\ actualColumns' = BuildActualColumns(fieldnames)
  /\ pc' = "bound"
  /\ UNCHANGED <<status, fracLacFolders, i, processed, fieldnames, rowsRead,
                 data, fileError, allData, outputs, expected, notC>>

NextB == BindColumns

SpecColumns == InitB /\ [][NextB]_vars

\* C8: for any header row, each canonical name whose prefix starts some
\* header is bound to the first such header and to no other header, a name
\* whose prefix starts no header is bound to none, and a header that starts
\* with no prefix is not bound; so no canonical name is bound twice and no
\* binding is lost to a later name.
C8_BindsFirstHeaderOnly ==
  pc = "bound" =>
    /\ \A k \in 1..Len(column_map) :
         LET starts == {j \in 1..Len(fieldnames) :
                          StartsWith(fieldnames[j], column_map[k][1])}
             boundTo == {h \in DOMAIN actualColumns :
                           actualColumns[h] = column_map[k][2]}
         IN IF starts = {}
            THEN boundTo = {}
            ELSE boundTo =
                   {fieldnames[CHOOSE j \in starts : \A l \in starts : j <= l]}
    /\ \A h \in DOMAIN actualColumns :
         \E j \in 1..Len(fieldnames) :
           /\ fieldnames[j] = h
           /\ \E k \in 1..Len(column_map) : StartsWith(h, column_map[k][1])

\* C8's case: a header row in which two headers start with "6.", another
\* holds "6." after its own prefix "136.", and both names are bound.
C8_Witness ==
  /\ pc = "bound"
  /\ fieldnames = <<"136. Hull", "6. Db", "6. D">>
  /\ DOMAIN actualColumns = {"136. Hull", "6. Db"}


(***************************************************************************)
(* SpecRow: extractFilenameFromRow applied to one row                      *)
(***************************************************************************)

\* The rows have at most MaxColumns columns, under different headers: the
\* identity column, a column that may name the file, a measurement. A value
\* is empty, a text that names no file (two of them), a mask file name, or
\* another .tif file name.
RowHeaderNames == {"1. Name", "Name", "87. Lacunarity"}

MaxColumns == 2

RowHeaders ==
  {h \in UNION {[1..n -> RowHeaderNames] : n \in 1..MaxColumns} :
     \A a, b \in 1..Len(h) : a # b => h[a] # h[b]}

RowCellValues == {"", "notes", "other", "a_mask.tif", "b.tif"}

InitR ==
  /\ rowHeader \in RowHeaders
  /\ rowValues \in [1..Len(rowHeader) -> RowCellValues]
  /\ rowKey = << >>
  /\ IdleF
  /\ IdleC
  /\ IdleS
  /\ IdleP

\* filename = extractFilenameFromRow(row)
ExtractKey ==
  /\ rowKey = << >>
  /\ \E filename \in extractFilenameFromRow(rowHeader, rowValues) :
       rowKey' = <<filename>>
  /\ UNCHANGED <<rowHeader, rowValues, notR>>

NextR == ExtractKey

SpecRow == InitR /\ [][NextR]_vars

\* C6 as stated: whenever no name can be recovered for a row (from the
\* value of its '1.' column or, without one, from any of its values), the
\* key returned is 'unknown_' followed by the first 30 characters of the
\* identity value, never a bare constant shared by unrelated rows.
C6_PlaceholderForUnrecoverable ==
  Len(rowKey) = 1 =>
    LET firsts == {j \in 1..Len(rowHeader) : StartsWith(rowHeader[j], "1.")}
        tried == IF firsts # {}
                 THEN {CHOOSE j \in firsts : \A l \in firsts : j <= l}
                 ELSE 1..Len(rowHeader)
    IN (\A j \in tried : CleanPath(rowValues[j]) \in {"empty", "placeholder"})
       => \E j \in tried :
            rowKey[1] = "unknown_" \o Take(rowValues[j], PlaceholderLen)


(***************************************************************************)
(* SpecSkel: one run of the skeleton analysis (FracLacPrep.py)             *)
(***************************************************************************)

\* \d on one character
IsDigit(c) == Len(c) = 1 /\ Contains("0123456789", c)

\* re.sub(r'_area[3-8]\d{2}_mask\.tif$', '', baseName): the pattern has 17
\* characters and must end the name.
SubArea3(baseName) ==
  LET n == Len(baseName)
  IN IF /\ n >= 17
        /\ At(baseName, n - 16, "_area")
        /\ Contains("345678", Ch(baseName, n - 11))
        /\ IsDigit(Ch(baseName, n - 10))
        /\ IsDigit(Ch(baseName, n - 9))
        /\ At(baseName, n - 8, "_mask.tif")
     THEN Take(baseName, n - 17)
     ELSE baseName

\* The length of the run of digits that ends at position e of baseName.
DigitRun(baseName, e) ==
  Cardinality({j \in 1..e : \A l \in j..e : IsDigit(Ch(baseName, l))})

\* re.sub(r'_area\d+_mask\.tif$', '', baseName): '_area', then the whole
\* run of digits that stands before the closing '_mask.tif'.
SubAreaDigits(baseName) ==
  LET e == Len(baseName) - 9
      k == DigitRun(baseName, e)
  IN IF /\ EndsWith(baseName, "_mask.tif")
        /\ k >= 1
        /\ At(baseName, e - k - 4, "_area")
     THEN Take(baseName, e - k - 5)
     ELSE baseName

\* re.sub(r'_mask\.tif$', '', baseName)
SubMask(baseName) ==
  IF EndsWith(baseName, "_mask.tif")
  THEN Take(baseName, Len(baseName) - 9)
  ELSE baseName

\* cellName, by the three substitutions and the two tests between them.
CellName(baseName) ==
  LET first == SubArea3(baseName)
      second == IF first = baseName THEN SubAreaDigits(baseName) ELSE first
  IN IF second = baseName \/ EndsWith(second, "_mask")
     THEN SubMask(baseName)
     ELSE second

\* avgBranchLength, a rational <<num, den>>: the analyzer's first value
\* when getAverageBranchLength returns a non-empty array, 0.0 when it
\* returns None or an empty array, and in the except branch the manual
\* value when there are branches and slab voxels, 0.0 otherwise.
AvgBranchLength(gave, numBranches, numSlabVoxels, scale) ==
  CASE gave.did = "value" -> gave.value
    [] gave.did \in {"none", "empty"} -> <<0, 1>>
    [] gave.did = "raises" ->
         IF numBranches > 0 /\ numSlabVoxels > 0
         THEN <<numSlabVoxels * scale[1], scale[2] * numBranches>>
         ELSE <<0, 1>>

\* maskArea and skeletonArea, rationals <<num, den>>: the count of pixels
\* above 0 times pixelSize * pixelSize.
Area(pixelCount, scale) ==
  <<pixelCount * scale[1] * scale[1], scale[2] * scale[2]>>

\* a / b on rationals; a denominator of 0 in the result is the division by
\* zero.
Quotient(a, b) == <<a[1] * b[2], a[2] * b[1]>>

\* metrics['branching_density'] with the division made whatever maskArea is.
BranchingDensity_Unguarded(skeletonArea, maskArea) ==
  Quotient(skeletonArea, maskArea)

\* metrics['branching_density']: skeletonArea / maskArea if maskArea > 0,
\* else 0.
BranchingDensity(skeletonArea, maskArea) ==
  IF maskArea[1] > 0
  THEN Quotient(skeletonArea, maskArea)
  ELSE <<0, 1>>

\* The metrics dictionary, as far as it is modelled; pixels is the count of
\* pixels above 0 in the mask and in its skeleton.
Metrics(maskFile, gave, numBranches, numSlabVoxels, pixels, scale) ==
  [mask_file |-> maskFile,
   cell_name |-> CellName(maskFile),
   skeleton_file |-> CellName(maskFile) \o "_skeleton.tif",
   pixel_size_um |-> scale,
   mask_area_um2 |-> Area(pixels[1], scale),
   num_branches |-> numBranches,
   num_slab_voxels |-> numSlabVoxels,
   avg_branch_length_um |->
     AvgBranchLength(gave, numBranches, numSlabVoxels, scale),
   skeleton_area_um2 |-> Area(pixels[2], scale),
   branching_density |->
     BranchingDensity(Area(pixels[2], scale), Area(pixels[1], scale))]

\* What the run is given: the names in the masks folder (at most MaxMasks),
\* the pixel size, and for each mask what the imaging toolkit does with it.
MaxMasks == 2

FileNames ==
  {"sample1_area455_mask.tif", "x_mask_area455_mask.tif", "sample2_mask.tif",
   "sample1_area12_mask.tif", "plainfile.tif"}

MaskListings ==
  {l \in UNION {[1..n -> FileNames] : n \in 0..MaxMasks} :
     \A a, b \in 1..Len(l) : a # b => l[a] # l[b]}

\* pixelSize as the user enters it: 0.5, 2, or 0.
PixelSizes == {<<1, 2>>, <<2, 1>>, <<0, 1>>}

\* maskPixelCount and skelPixelCount, as the two loops over getPixel count
\* them: a mask of 10 pixels with a skeleton of 4, an empty mask with an
\* empty skeleton, and an empty mask whose skeleton image has 3 pixels
\* above 0 (nothing in the code ties the one count to the other).
PixelCounts == {<<10, 4>>, <<0, 0>>, <<0, 3>>}

\* branches[0] and slabVoxels[0] of the analysed skeleton.
SkeletonCounts == {<<0, 0>>, <<4, 40>>}

\* getAverageBranchLength: an array whose first value is 6, None, an empty
\* array, or an exception.
AnalyzerAverages ==
  {[did |-> "value", value |-> <<6, 1>>],
   [did |-> "none", value |-> <<0, 1>>],
   [did |-> "empty", value |-> <<0, 1>>],
   [did |-> "raises", value |-> <<0, 1>>]}

InitS ==
  /\ skelPc = "start"
  /\ skelStatus = "running"
  /\ pixelSize \in PixelSizes
  /\ maskFiles = << >>
  /\ maskIndex = 0
  /\ allResults = << >>
  /\ analyzerGave = << >>
  /\ written = << >>
  /\ skeletons = EmptyDict
  /\ openHandles = {}
  /\ IdleF
  /\ IdleC
  /\ IdleR
  /\ IdleP

\* "Find mask files": the names of the listing that end in '_mask.tif';
\* with none, the error is reported and main returns.
FindMasks ==
  /\ skelPc = "start"
  /\ \E listing \in MaskListings :
       LET isMask(f) == EndsWith(f, "_mask.tif")
       IN maskFiles' = SelectSeq(listing, isMask)
  /\ IF Len(maskFiles') = 0
     THEN /\ skelPc' = "done"
          /\ skelStatus' = "no_masks"
          /\ maskIndex' = 0
     ELSE /\ skelPc' = "loop"
          /\ skelStatus' = "running"
          /\ maskIndex' = 1
  /\ UNCHANGED <<pixelSize, allResults, analyzerGave, written, skeletons,
                 openHandles, notS>>

\* analyzeSkeleton: IJ.openImage returns None, the error is printed, None
\* is returned and the loop goes on.
OpenReturnsNone ==
  /\ skelPc = "loop"
  /\ maskIndex <= Len(maskFiles)
  /\ maskIndex' = maskIndex + 1
  /\ UNCHANGED <<skelPc, skelStatus, pixelSize, maskFiles, allResults,
                 analyzerGave, written, skeletons, openHandles, notS>>

\* skelPath, the file the skeleton of a mask is saved to, as its base name
\* (every skeleton goes to the one output folder).
SkelPath(maskFile) == CellName(maskFile) \o "_skeleton.tif"

\* analyzeSkeleton: a call of the imaging toolkit raises after the mask was
\* opened: while the mask is measured (rt.getValue on a table without the
\* column), in IJ.save of the skeleton, or after it (the analyzer's run).
\* Neither analyzeSkeleton nor the loop in main catches it: the script ends
\* there, the images opened so far not closed.
AnalyzeRaises ==
  /\ skelPc = "loop"
  /\ maskIndex <= Len(maskFiles)
  /\ \E stage \in {"measure", "save", "analyze"} :
       /\ openHandles' =
            openHandles \cup
            IF stage = "measure"
            THEN {<<maskFiles[maskIndex], "mask">>}
            ELSE {<<maskFiles[maskIndex], "mask">>,
                  <<maskFiles[maskIndex], "skel">>}
       /\ skeletons' =
            IF stage = "analyze"
            THEN Put(skeletons, SkelPath(maskFiles[maskIndex]),
                     maskFiles[maskIndex])
            ELSE skeletons
  /\ skelPc' = "done"
  /\ skelStatus' = "aborted"
  /\ UNCHANGED <<pixelSize, maskFiles, maskIndex, allResults, analyzerGave,
                 written, notS>>

\* analyzeSkeleton saves the skeleton of the mask, closes both images and
\* returns the metrics, which main appends.
AnalyzeMask ==
  /\ skelPc = "loop"
  /\ maskIndex <= Len(maskFiles)
  /\ \E counts \in SkeletonCounts, gave \in AnalyzerAverages,
        pixels \in PixelCounts :
       /\ allResults' =
            Append(allResults,
                   Metrics(maskFiles[maskIndex], gave, counts[1], counts[2],
                           pixels, pixelSize))
       /\ analyzerGave' = Append(analyzerGave, gave)
  /\ skeletons' = Put(skeletons, SkelPath(maskFiles[maskIndex]),
                      maskFiles[maskIndex])
  /\ maskIndex' = maskIndex + 1
  /\ UNCHANGED <<skelPc, skelStatus, pixelSize, maskFiles, written,
                 openHandles, notS>>

\* "Save results": after the last mask the CSV is written when there is a
\* result, and the error is reported when there is none.
SaveResults ==
  /\ skelPc = "loop"
  /\ maskIndex > Len(maskFiles)
  /\ skelPc' = "done"
  /\ IF Len(allResults) > 0
     THEN /\ written' = Append(written, allResults)
          /\ skelStatus' = "completed"
     ELSE /\ skelStatus' = "no_cells"
          /\ UNCHANGED written
  /\ UNCHANGED <<pixelSize, maskFiles, maskIndex, allResults, analyzerGave,
                 skeletons, openHandles, notS>>

NextS ==
  \/ FindMasks
  \/ OpenReturnsNone
  \/ AnalyzeRaises
  \/ AnalyzeMask
  \/ SaveResults

SpecSkel == InitS /\ [][NextS]_vars

(***************************************************************************)
(* Claims about the skeleton analysis, checked under SpecSkel              *)
(***************************************************************************)

\* C4 as stated: a failing item never aborts a run: when the run has ended,
\* every mask of the enumeration has been taken, and the results of the
\* masks that were analysed have been written.
C4_FailureNeverAborts ==
  (skelPc = "done" /\ skelStatus # "no_masks") =>
    /\ maskIndex > Len(maskFiles)
    /\ Len(allResults) > 0 => Len(written) = 1

\* C5 as stated: the average branch length is the analyzer's value when it
\* gave one; whenever it gave none (the call raised, or returned None or an
\* empty array) it is (slab voxels x scale) / branches when there are
\* branches, and 0 otherwise.
C5_FallbackWheneverNoValue ==
  \A r \in 1..Len(allResults) :
    LET avg == allResults[r].avg_branch_length_um
        branches == allResults[r].num_branches
        slab == allResults[r].num_slab_voxels
        scale == allResults[r].pixel_size_um
    IN IF analyzerGave[r].did = "value"
       THEN avg[1] * analyzerGave[r].value[2] =
              analyzerGave[r].value[1] * avg[2]
       ELSE IF branches > 0
       THEN avg[1] * scale[2] * branches = slab * scale[1] * avg[2]
       ELSE avg[1] = 0

\* C7 as stated: the cell name of a mask file is the name without its
\* trailing '_area<digits>_mask.tif' when it ends so, else the name without
\* its trailing '_mask.tif' when it ends so, else the name itself; for
\* every name, those with a stem that ends in '_mask' included.
C7_CellNameStripsOneSuffix ==
  \A r \in 1..Len(allResults) :
    LET f == allResults[r].mask_file
        e == Len(f) - 9
        area == {j \in 1..e :
                   /\ At(f, j, "_area")
                   /\ j + 5 <= e
                   /\ \A l \in (j + 5)..e : IsDigit(Ch(f, l))}
    IN allResults[r].cell_name =
         IF ~EndsWith(f, "_mask.tif") THEN f
         ELSE IF area # {} THEN Take(f, (CHOOSE j \in area : TRUE) - 1)
         ELSE Take(f, e)


\* C11: no division of the metrics is made by zero: the branching density
\* is exactly 0 whenever the mask area is 0, whatever the skeleton area, and
\* skeleton area / mask area otherwise; the average branch length is 0
\* whenever the analyzer gave no value and there are no branches.
C11_NoZeroDenominator ==
  \A r \in 1..Len(allResults) :
    LET density == allResults[r].branching_density
        maskArea == allResults[r].mask_area_um2
        skeletonArea == allResults[r].skeleton_area_um2
        avg == allResults[r].avg_branch_length_um
    IN /\ density[2] # 0
       /\ avg[2] # 0
       /\ IF maskArea[1] = 0
          THEN density[1] = 0
          ELSE density[1] * maskArea[1] * skeletonArea[2] =
                 skeletonArea[1] * maskArea[2] * density[2]
       /\ (analyzerGave[r].did # "value" /\ allResults[r].num_branches = 0)
          => avg[1] = 0

\* C11's case: a result with a mask area of 0 next to a skeleton area above
\* 0, and no branches under an analyzer call that raised.
C11_Witness ==
  \E r \in 1..Len(allResults) :
    /\ allResults[r].mask_area_um2[1] = 0
    /\ allResults[r].skeleton_area_um2[1] > 0
    /\ allResults[r].num_branches = 0
    /\ analyzerGave[r].did = "raises"


\* C15 as stated: a run over distinct mask files that are all analysed
\* produces one skeleton file per mask, none overwritten by a later mask,
\* and one record per mask in the order of the enumeration.
C15_OneSkeletonPerMask ==
  (skelPc = "done" /\ Len(allResults) = Len(maskFiles)) =>
    /\ \A r \in 1..Len(maskFiles) : allResults[r].mask_file = maskFiles[r]
    /\ \A r \in 1..Len(maskFiles) :
         /\ allResults[r].skeleton_file \in DOMAIN skeletons
         /\ skeletons[allResults[r].skeleton_file] = maskFiles[r]
    /\ Cardinality(DOMAIN skeletons) = Len(maskFiles)

(***************************************************************************)
(* SpecPrep: step 1 of the preparation, cleaning the masks (FracLacPrep.py)*)
(***************************************************************************)

\* What the run is given: the entries of the input folder (at most MaxFiles
\* of them), each a file or a directory, and what the imaging toolkit does
\* with each file.
MaxFiles == 3

InputNames == {"a_mask.tif", "b_mask.TIFF", "c.tif", "notes.txt"}

InputEntries == [name : InputNames, isFile : BOOLEAN]

InputListings ==
  {l \in UNION {[1..n -> InputEntries] : n \in 0..MaxFiles} :
     \A a, b \in 1..Len(l) : a # b => l[a].name # l[b].name}

\* filename.lower().endswith(('.tif', '.tiff'))
IsTiff(filename) ==
  \/ AtCI(filename, Len(filename) - 3, ".tif")
  \/ AtCI(filename, Len(filename) - 4, ".tiff")

InitP ==
  /\ prepPc = "start"
  /\ allFiles = << >>
  /\ fileIndex = 0
  /\ cleaned = 0
  /\ failed = 0
  /\ savedImages = {}
  /\ openImages = {}
  /\ IdleF
  /\ IdleC
  /\ IdleR
  /\ IdleS

\* "Find all TIFF files": the files of the listing named .tif or .tiff;
\* with none, the error is reported and main returns.
FindTiffs ==
  /\ prepPc = "start"
  /\ \E listing \in InputListings :
       LET keep(e) == IsTiff(e.name) /\ e.isFile
           found == SelectSeq(listing, keep)
       IN /\ allFiles' = [j \in 1..Len(found) |-> found[j].name]
          /\ IF Len(found) = 0
             THEN prepPc' = "done" /\ fileIndex' = 0
             ELSE prepPc' = "loop" /\ fileIndex' = 1
  /\ UNCHANGED <<cleaned, failed, savedImages, openImages, notP>>

\* IJ.openImage returns nothing: the error is printed, failed is counted,
\* continue.
CannotOpen ==
  /\ prepPc = "loop"
  /\ fileIndex <= Len(allFiles)
  /\ failed' = failed + 1
  /\ fileIndex' = fileIndex + 1
  /\ UNCHANGED <<prepPc, allFiles, cleaned, savedImages, openImages, notP>>

\* The image is opened, made binary, scaled, saved and closed.
CleanFile ==
  /\ prepPc = "loop"
  /\ fileIndex <= Len(allFiles)
  /\ savedImages' = savedImages \cup {allFiles[fileIndex]}
  /\ cleaned' = cleaned + 1
  /\ fileIndex' = fileIndex + 1
  /\ UNCHANGED <<prepPc, allFiles, failed, openImages, notP>>

\* A call inside the try raises: IJ.openImage itself (no image is open), or
\* a later one up to IJ.save (the image is open). The except branch prints
\* the error and counts failed; imp.close() on line 116 was not reached and
\* the branch does not close the image.
CleanRaises ==
  /\ prepPc = "loop"
  /\ fileIndex <= Len(allFiles)
  /\ \E opened \in BOOLEAN :
       openImages' = IF opened
                     THEN openImages \cup {allFiles[fileIndex]}
                     ELSE openImages
  /\ failed' = failed + 1
  /\ fileIndex' = fileIndex + 1
  /\ UNCHANGED <<prepPc, allFiles, cleaned, savedImages, notP>>

\* After the last file: CLEANING COMPLETE, and main goes on to step 2,
\* which copies the saved files into batches and opens no image.
CleaningComplete ==
  /\ prepPc = "loop"
  /\ fileIndex > Len(allFiles)
  /\ prepPc' = "done"
  /\ UNCHANGED <<allFiles, fileIndex, cleaned, failed, savedImages,
                 openImages, notP>>

NextP ==
  \/ FindTiffs
  \/ CannotOpen
  \/ CleanFile
  \/ CleanRaises
  \/ CleaningComplete

SpecPrep == InitP /\ [][NextP]_vars

\* C13 as stated: image handles are released on every exit path: once the
\* processing of an item has ended, by success, by a failure to open, or by
\* an exception after it was opened, every handle opened for it is closed;
\* so between two items and at the end of the run no image is open.
C13_HandlesReleased ==
  prepPc \in {"loop", "done"} => openImages = {}

====
